---- MODULE Spec2Model ----
(***************************************************************************)
(* A model of the two Client variants of quill-co/mailstream:              *)
(*   "baseline" : src/src/client.ts       (numMessages baseline, seq.fetch)*)
(*   "uidset"   : src/unnamed/part_004    (seenUIDs set, uid fetch)        *)
(* together with the collaborators they drive: the IMAP engine (connect,   *)
(* openBox, search, fetch with its message/error/end events, the "mail"    *)
(* push event, end) and the MIME parser (simpleParser), whose completions  *)
(* are the asynchronous steps of the model.                                *)
(***************************************************************************)
EXTENDS Integers, Sequences, FiniteSets, TLC

\* ------------------------------------------------------------------ bounds
\* calls started in one behaviour: getUnseenMails, switchMailbox and close
\* calls of the user, and the cycles the server's pushes start
MaxCalls == 2
\* messages the server's INBOX holds at most
MaxMsgs == 2
\* entries in each of the client's listener lists
MaxSubs == 2

VARIABLES
    variant,      \* which Client class is instantiated
    direct,       \* TRUE: built with `new Client(config)`, never connected
    client,       \* this.client: "none" (undefined) or "imap"
    currentBox,   \* this.currentBox: NoBox (null) or the Box of a selection
    numMessages,  \* baseline: this.numMessages
    seenUIDs,     \* uidset: this.seenUIDs
    errListener,  \* connect's errorHandler is registered on the engine
    pushListener, \* setupListeners' "mail" listener is registered
    createP,      \* the promise of Client.create
    createErr,    \* what create was rejected with
    connLog,      \* the connection events the client's handlers have seen
    engine,       \* the IMAP engine's connection state
    selected,     \* the mailbox the server has selected for this session
    queue,        \* the engine's command queue: requests issued and not yet
                  \* completed, served one at a time in issue order
    mailbox,      \* the server's INBOX: the UIDs of its messages by seqno
    cycles,       \* every getUnseenMails / fetchNewMessages call made
    switches,     \* every switchMailbox call made
    closed,       \* close() has returned
    closes,       \* every close() call made: its promise, and whether it
                  \* called this.client.end()
    debug,        \* config.debug: the log sink in use
    registered,   \* the handlers the caller has subscribed and not
                  \* unsubscribed, in subscription order
    listeners,    \* the EventEmitter's "mail" listeners
    mailListeners \* baseline: this.mailListeners

vars == <<variant, direct, client, currentBox, numMessages, seenUIDs,
          errListener, pushListener, createP, createErr, connLog, engine,
          selected, queue, mailbox, cycles, switches, closed, closes,
          debug, registered, listeners, mailListeners>>

\* The configuration and the subscriptions: what the connection, the cycles
\* and the engine's events leave alone.
subVars == <<debug, registered, listeners, mailListeners>>

connVars == <<client, errListener, pushListener, createP, createErr,
              connLog, engine, selected, queue>>

\* ------------------------------------------------------------- data
Variants == {"baseline", "uidset"}

NoBox == [name |-> "null", total |-> 0]

\* The other mailbox of the account: one message whose UID differs from
\* its sequence number.
ArchiveBox == <<2>>

MailboxNames == {"INBOX", "Archive"}

\* What the INBOX holds when the client is created: nothing, or messages
\* whose UIDs equal their sequence numbers, or one whose UID does not.
InitMailboxes == {<<>>, <<1>>, <<2>>, <<1, 2>>}

\* config.debug: disabled ("off"); enabled with a sink that returns ("log");
\* enabled with a custom sink that throws when it is handed the
\* "Parsed mail message" line and returns otherwise ("fail").
Sinks == {"off", "log", "fail"}

\* this.debug(message, ...): nothing when disabled, else the sink is called
\* in the caller's frame.  TRUE when the call throws.
DebugThrows(sink, message) == sink = "fail" /\ message = "Parsed mail message"

\* The handlers the caller can subscribe; "bad" throws whenever it is invoked.
Handlers == {"h1", "h2", "bad"}

HandlerThrows(h) == h = "bad"

\* An entry of connLog: the event and, for a selection response, its Box.
LogEv(ev, box) == [ev |-> ev, box |-> box]

LogHas(ev) == \E i \in 1..Len(connLog) : connLog[i].ev = ev

\* The messages of a server mailbox, by sequence number.
ServerBox(name) == IF name = "INBOX" THEN mailbox
                   ELSE IF name = "Archive" THEN ArchiveBox ELSE <<>>

\* The Box an openBox callback delivers.
BoxOf(name) == [name |-> name, total |-> Len(ServerBox(name))]

\* A promise settles once: resolve/reject on a settled promise is a no-op.
Settle(p, outcome) == IF p = "pending" THEN outcome ELSE p

SettleErr(p, e, err) == IF p = "pending" THEN err ELSE e

Range(s) == {s[i] : i \in 1..Len(s)}

\* A command handed to the engine: op is "openBox", "search", "fetch" or
\* "logout"; id is the cycle or switchMailbox call that issued it.
Req(op, who, name, id) == [op |-> op, who |-> who, name |-> name, id |-> id]

\* Another call fits the bound.
CallsLeft == Len(cycles) + Len(switches) + Len(closes) < MaxCalls

\* The user holds a Client: create resolved, or it was constructed directly.
UserRef == direct \/ createP = "resolved"

\* ------------------------------------------------------------- Init
Init ==
    /\ variant \in Variants
    /\ direct \in BOOLEAN
    /\ client = "none"
    /\ currentBox = NoBox
    /\ numMessages = 0
    /\ seenUIDs = {}
    /\ errListener = FALSE
    /\ pushListener = FALSE
    /\ createP = "none"
    /\ createErr = "none"
    /\ connLog = <<>>
    /\ engine = "idle"
    /\ selected = "none"
    /\ queue = <<>>
    /\ mailbox \in InitMailboxes
    /\ cycles = <<>>
    /\ switches = <<>>
    /\ closed = FALSE
    /\ closes = <<>>
    /\ debug \in Sinks
    /\ registered = <<>>
    /\ listeners = <<>>
    /\ mailListeners = <<>>

\* ------------------------------------------------------------- connect
\* Client.create -> connect(): new Imap, once("error"), once("ready"),
\* client.connect().
Connect ==
    /\ ~direct
    /\ client = "none"
    /\ client' = "imap"
    /\ createP' = "pending"
    /\ errListener' = TRUE
    /\ engine' = "connecting"
    /\ UNCHANGED <<variant, direct, currentBox, numMessages, seenUIDs,
                   pushListener, createErr, connLog, selected, queue,
                   mailbox, cycles, switches, closed>>
    /\ UNCHANGED <<closes, subVars>>

\* client.connect() throws synchronously: the catch rejects.
ConnectThrows ==
    /\ ~direct
    /\ client = "none"
    /\ client' = "imap"
    /\ createP' = "rejected"
    /\ createErr' = "throw"
    /\ errListener' = TRUE
    /\ engine' = "dead"
    /\ UNCHANGED <<variant, direct, currentBox, numMessages, seenUIDs,
                   pushListener, connLog, selected, queue,
                   mailbox, cycles, switches, closed>>
    /\ UNCHANGED <<closes, subVars>>

\* A ready handler that resolves create as soon as the connection is ready.
ReadyHandlerResolving ==
    /\ errListener' = FALSE
    /\ queue' = Append(queue, Req("openBox", "connect", "INBOX", 0))
    /\ connLog' = Append(connLog, LogEv("ready", NoBox))
    /\ createP' = Settle(createP, "resolved")
    /\ UNCHANGED <<client, pushListener, createErr, selected>>

\* The "ready" handler: drop the error handler, open the configured mailbox.
ReadyHandler ==
    /\ errListener' = FALSE
    /\ queue' = Append(queue, Req("openBox", "connect", "INBOX", 0))
    /\ connLog' = Append(connLog, LogEv("ready", NoBox))
    /\ UNCHANGED <<client, pushListener, createP, createErr, selected>>

EngineReady ==
    /\ engine = "connecting"
    /\ engine' = "auth"
    /\ ReadyHandler
    /\ UNCHANGED <<variant, direct, currentBox, numMessages, seenUIDs,
                   mailbox, cycles, switches, closed>>
    /\ UNCHANGED <<closes, subVars>>

\* connect's errorHandler; the uidset variant also clears currentBox.
ErrorHandler ==
    /\ createP' = Settle(createP, "rejected")
    /\ createErr' = SettleErr(createP, createErr, "connection")
    /\ currentBox' = IF variant = "uidset" THEN NoBox ELSE currentBox
    /\ errListener' = FALSE

\* The engine emits "error" (the connection failed or dropped).  It reaches
\* errorHandler only while that is still registered (once, and removed by
\* the ready handler).
EngineError ==
    /\ engine \in {"connecting", "auth"}
    /\ createP = "pending"
    /\ engine' = "dead"
    /\ connLog' = Append(connLog, LogEv("error", NoBox))
    /\ IF errListener
       THEN ErrorHandler
       ELSE UNCHANGED <<createP, createErr, currentBox, errListener>>
    /\ UNCHANGED <<variant, direct, client, numMessages, seenUIDs,
                   pushListener, selected, queue, mailbox, cycles,
                   switches, closed>>
    /\ UNCHANGED <<closes, subVars>>

\* An openBox callback that sets up the listeners before it looks at err.
ConnectBoxCbListensFirst(ok, box) ==
    IF ok
    THEN /\ currentBox' = box
         /\ numMessages' = IF variant = "baseline" THEN box.total ELSE numMessages
         /\ pushListener' = TRUE
         /\ createP' = Settle(createP, "resolved")
         /\ connLog' = Append(connLog, LogEv("boxOk", box))
         /\ UNCHANGED <<createErr, switches>>
    ELSE /\ createP' = Settle(createP, "rejected")
         /\ createErr' = SettleErr(createP, createErr, "mailbox")
         /\ connLog' = Append(connLog, LogEv("boxErr", NoBox))
         /\ pushListener' = TRUE
         /\ UNCHANGED <<currentBox, numMessages, switches>>

\* connect's openBox callback.
ConnectBoxCb(ok, box) ==
    IF ok
    THEN /\ currentBox' = box
         /\ numMessages' = IF variant = "baseline" THEN box.total ELSE numMessages
         /\ pushListener' = TRUE
         /\ createP' = Settle(createP, "resolved")
         /\ connLog' = Append(connLog, LogEv("boxOk", box))
         /\ UNCHANGED <<createErr, switches>>
    ELSE /\ createP' = Settle(createP, "rejected")
         /\ createErr' = SettleErr(createP, createErr, "mailbox")
         /\ connLog' = Append(connLog, LogEv("boxErr", NoBox))
         /\ UNCHANGED <<currentBox, numMessages, pushListener, switches>>

\* switchMailbox's openBox callback.
SwitchBoxCb(sw, ok, box) ==
    /\ IF ok
       THEN /\ currentBox' = box
            /\ switches' = [switches EXCEPT ![sw].promise = Settle(@, "resolved"),
                                            ![sw].resp = box,
                                            ![sw].box = box,
                                            ![sw].base = numMessages]
       ELSE /\ switches' = [switches EXCEPT ![sw].promise = Settle(@, "rejected")]
            /\ UNCHANGED currentBox
    /\ UNCHANGED <<numMessages, pushListener, createP, createErr, connLog>>

\* The engine answers the oldest outstanding openBox.
EngineOpenBoxCb ==
    /\ engine = "auth"
    /\ queue # <<>>
    /\ Head(queue).op = "openBox"
    /\ \E ok \in BOOLEAN :
         LET req == Head(queue) IN
         /\ selected' = IF ok THEN req.name ELSE selected
         /\ IF req.who = "connect"
            THEN ConnectBoxCb(ok, BoxOf(req.name))
            ELSE SwitchBoxCb(req.id, ok, BoxOf(req.name))
    /\ queue' = Tail(queue)
    /\ UNCHANGED <<variant, direct, client, seenUIDs, errListener, engine,
                   mailbox, cycles, closed>>
    /\ UNCHANGED <<closes, subVars>>

\* ------------------------------------------------------------- cycles
\* The identifiers of the mail events published so far.
PublishedUids == UNION {Range(cycles[c].out) : c \in 1..Len(cycles)}

\* The session is Ready with a mailbox selected: connected and authenticated,
\* not closed, and the server has a mailbox selected for it.
SessionReady ==
    /\ client = "imap"
    /\ engine = "auth"
    /\ ~closed
    /\ selected # "none"

\* The bookkeeping of one getUnseenMails / fetchNewMessages call.
BlankCycle(trigger, kind) ==
    [trigger |-> trigger,        \* "user" or "push"
     kind |-> kind,              \* "scan" (search + fetch) or "range" (seq range)
     afterClose |-> closed,      \* invoked after close() returned
     ready |-> SessionReady,     \* invoked with the session Ready
     pubAtStart |-> PublishedUids, \* identifiers published before the call
     pubAtSearch |-> {},         \* identifiers published before the search
                                 \* callback ran
     promise |-> "pending",      \* the call's promise
     err |-> "none",             \* what it was rejected with
     pc |-> "done",              \* "search", "fetch" or "done"
     searches |-> 0,             \* client.search invocations
     fetches |-> 0,              \* client.fetch / client.seq.fetch invocations
     found |-> <<>>,             \* what the search returned
     by |-> "none",              \* "uid" (client.fetch) or "seq" (client.seq.fetch)
     req |-> {},                 \* the identifiers / sequence numbers asked for
     base |-> 0,                 \* range: numMessages when the range was computed
     numNew |-> 0,               \* range: the pushed count
     after |-> 0,                \* range: numMessages when the end handler
                                 \* resolved
     msgs |-> <<>>,              \* the messages reported, in "message" order:
                                 \* uid, st ("decoding", "ok": the mail was
                                 \* built, "fail": the handler's catch ran),
                                 \* parsed (simpleParser succeeded)
     fetchErr |-> FALSE,         \* the fetch emitted "error"
     fetchEnd |-> FALSE,         \* the fetch emitted "end"
     joined |-> FALSE,           \* the "end" handler got past Promise.all
     out |-> <<>>,               \* the identifiers published, in order
     dels |-> <<>>]              \* for each publication, who was invoked

\* getUnseenMails up to the point where it waits for the search callback.
GetUnseenMailsCall(trigger) ==
    LET cy == BlankCycle(trigger, "scan") IN
    IF client = "none"
    THEN [cy EXCEPT !.promise = "rejected", !.err = "NotConnected"]
    ELSE IF variant = "uidset" /\ currentBox = NoBox
    THEN [cy EXCEPT !.promise = "rejected", !.err = "NoMailbox"]
    ELSE [cy EXCEPT !.pc = "search", !.searches = 1]

\* baseline fetchNewMessages(numNew) up to the point where it waits for the
\* fetch's events.
FetchNewMessagesCall(n) ==
    LET cy == BlankCycle("push", "range") IN
    IF client = "none"
    THEN [cy EXCEPT !.promise = "resolved"]
    ELSE [cy EXCEPT !.pc = "fetch", !.fetches = 1, !.by = "seq",
                    !.base = numMessages, !.numNew = n,
                    !.req = (numMessages + 1)..(numMessages + n)]

\* A filter that keeps every identifier.
NewUIDsUnfiltered(uids, seen) == uids

\* uids.filter((uid) => !this.seenUIDs.has(uid))
NewUIDs(uids, seen) == SelectSeq(uids, LAMBDA u : u \notin seen)

\* The server's answer to UID SEARCH UNSEEN: neither client marks a message
\* seen, so every message of the selected mailbox is unseen.
SearchResult(box) == box

\* The messages at the sequence numbers of req, in mailbox order.
SeqAt(box, req) ==
    LET idx == SelectSeq([i \in 1..Len(box) |-> i], LAMBDA i : i \in req)
    IN [k \in 1..Len(idx) |-> box[idx[k]]]

\* The UIDs of the messages a fetch reports, in the order it reports them:
\* client.fetch addresses UIDs, client.seq.fetch sequence numbers.
FetchResult(by, req, box) ==
    IF by = "uid" THEN SelectSeq(box, LAMBDA u : u \in req) ELSE SeqAt(box, req)

\* The search callback of the baseline getUnseenMails, without error.
BaselineSearchCb(cy, uids) ==
    IF Len(uids) = 0
    THEN [cy EXCEPT !.found = uids, !.pubAtSearch = PublishedUids,
                    !.pc = "done", !.promise = Settle(@, "resolved")]
    ELSE [cy EXCEPT !.found = uids, !.pubAtSearch = PublishedUids,
                    !.pc = "fetch", !.fetches = @ + 1,
                    !.by = "seq", !.req = Range(uids)]

\* The search callback of the uidset getUnseenMails, without error.
UidsetSearchCb(cy, uids) ==
    IF Len(uids) = 0
    THEN [cy EXCEPT !.found = uids, !.pubAtSearch = PublishedUids,
                    !.pc = "done", !.promise = Settle(@, "resolved")]
    ELSE LET newUIDs == NewUIDs(uids, seenUIDs) IN
         IF Len(newUIDs) = 0
         THEN [cy EXCEPT !.found = uids, !.pubAtSearch = PublishedUids,
                         !.pc = "done", !.promise = Settle(@, "resolved")]
         ELSE [cy EXCEPT !.found = uids, !.pubAtSearch = PublishedUids,
                         !.pc = "fetch", !.fetches = @ + 1,
                         !.by = "uid", !.req = Range(newUIDs)]

SearchCb(cy, uids) ==
    IF variant = "baseline" THEN BaselineSearchCb(cy, uids)
    ELSE UidsetSearchCb(cy, uids)

\* A search callback that returns on an error without rejecting.
SearchErrCbSilent(cy) == [cy EXCEPT !.pc = "done"]

\* The search callback with an error.
SearchErrCb(cy) ==
    [cy EXCEPT !.pc = "done", !.promise = Settle(@, "rejected"),
               !.err = SettleErr(cy.promise, @, "search")]

\* The handlers of list that run when they are invoked in order: a handler
\* that throws ends the iteration.
UpToThrow(list) ==
    LET bad == {i \in 1..Len(list) : HandlerThrows(list[i])} IN
    IF bad = {} THEN list
    ELSE SubSeq(list, 1, CHOOSE i \in bad : \A j \in bad : i <= j)

AnyThrows(list) == \E i \in 1..Len(list) : HandlerThrows(list[i])

\* The sequence without its first / last occurrence of h.
WithoutFirst(list, h) ==
    LET at == {i \in 1..Len(list) : list[i] = h} IN
    IF at = {} THEN list
    ELSE LET k == CHOOSE i \in at : \A j \in at : i <= j
         IN SubSeq(list, 1, k - 1) \o SubSeq(list, k + 1, Len(list))

WithoutLast(list, h) ==
    LET at == {i \in 1..Len(list) : list[i] = h} IN
    IF at = {} THEN list
    ELSE LET k == CHOOSE i \in at : \A j \in at : i >= j
         IN SubSeq(list, 1, k - 1) \o SubSeq(list, k + 1, Len(list))

\* A handler that unsubscribes itself when it is invoked: its body calls
\* this.removeMailListener(itself) of the baseline client.
HandlerLeaves(h) == h = "leaver"

\* mailListeners after the handlers of `called` have run in order: each
\* removeMailListener splices the first occurrence out of the array.
RECURSIVE Leave(_, _)
Leave(ml, called) ==
    IF called = <<>> THEN ml
    ELSE Leave(IF HandlerLeaves(Head(called))
               THEN WithoutFirst(ml, Head(called)) ELSE ml,
               Tail(called))

\* this.mailListeners.forEach(listener => listener(mail)) from index i on.
\* forEach reads the live array: when a handler splices an element out, the
\* elements behind it move down one index and the next index is visited.
RECURSIVE ForEach(_, _, _)
ForEach(ml, i, to) ==
    IF i > Len(ml) THEN [to |-> to, ml |-> ml, threw |-> FALSE]
    ELSE IF HandlerThrows(ml[i])
    THEN [to |-> Append(to, ml[i]), ml |-> ml, threw |-> TRUE]
    ELSE ForEach(IF HandlerLeaves(ml[i]) THEN WithoutFirst(ml, ml[i]) ELSE ml,
                 i + 1, Append(to, ml[i]))

\* Publishing one mail with mailListeners = ml and the subscribers reg.
\* this.emit("mail", mail) invokes a copy of the emitter's list, in order;
\* the baseline then runs this.mailListeners.forEach(...).  to: the handlers
\* invoked, in order; ml, reg: the lists afterwards; threw: a handler threw.
PublishOne(ml, reg) ==
    LET emitted == UpToThrow(listeners)
        each == IF variant = "baseline" /\ ~AnyThrows(listeners)
                THEN ForEach(Leave(ml, emitted), 1, emitted)
                ELSE [to |-> emitted, ml |-> Leave(ml, emitted),
                      threw |-> AnyThrows(listeners)]
    IN [to |-> each.to, ml |-> each.ml, threw |-> each.threw,
        reg |-> SelectSeq(reg, LAMBDA h :
                    ~(HandlerLeaves(h) /\ h \in Range(each.to)))]

\* The handlers one publication would invoke if no handler changed the
\* lists while it runs.
Plan(ml) ==
    IF variant = "baseline" /\ ~AnyThrows(listeners)
    THEN listeners \o UpToThrow(ml)
    ELSE UpToThrow(listeners)

PublishThrows == PublishOne(mailListeners, registered).threw

\* The handlers invoked for one mail, in invocation order.
Invoked == PublishOne(mailListeners, registered).to

\* The record of one publication: the mail's identifier, the handlers
\* invoked, the handlers that were subscribed when it began and the handlers
\* it would invoke with the lists as they were when it began.
DeliveryWith(uid, ml, reg) ==
    [uid |-> uid, to |-> PublishOne(ml, reg).to, subs |-> reg,
     plan |-> Plan(ml)]

Delivery(uid) == DeliveryWith(uid, mailListeners, registered)

\* The baseline's mails.forEach(mail => { emit; mailListeners.forEach }) over
\* the mails uids: a throwing handler ends it.
RECURSIVE PublishAll(_, _, _, _)
PublishAll(uids, ml, reg, dels) ==
    IF uids = <<>> THEN [dels |-> dels, ml |-> ml, reg |-> reg, threw |-> FALSE]
    ELSE LET p == PublishOne(ml, reg)
             d == DeliveryWith(Head(uids), ml, reg)
         IN IF p.threw
            THEN [dels |-> Append(dels, d), ml |-> p.ml, reg |-> p.reg,
                  threw |-> TRUE]
            ELSE PublishAll(Tail(uids), p.ml, p.reg, Append(dels, d))

BaselinePublication(cy) ==
    PublishAll([i \in 1..Len(cy.msgs) |-> cy.msgs[i].uid],
               mailListeners, registered, <<>>)

AllOk(cy) == \A i \in 1..Len(cy.msgs) : cy.msgs[i].st = "ok"
AnyFail(cy) == \E i \in 1..Len(cy.msgs) : cy.msgs[i].st = "fail"
AllSettled(cy) == \A i \in 1..Len(cy.msgs) : cy.msgs[i].st \in {"ok", "fail"}

\* An "end" handler that does not wait for the message promises.
JoinReadyAtEnd(cy) == cy.fetchEnd /\ ~cy.joined

\* The "end" handler's `await Promise.all(messagePromises)` returns or throws.
\* baseline: the message promises carry the mails and reject on a decode error;
\* uidset: every message promise resolves, also after a decode error.
JoinReady(cy) ==
    /\ cy.fetchEnd
    /\ ~cy.joined
    /\ IF variant = "baseline" THEN AnyFail(cy) \/ AllOk(cy) ELSE AllSettled(cy)

\* baseline, after Promise.all: publish the mails in array order, resolve;
\* or the catch: reject.
BaselineJoin(cy) ==
    LET pub == BaselinePublication(cy) IN
    IF AnyFail(cy)
    THEN [cy EXCEPT !.joined = TRUE, !.promise = Settle(@, "rejected"),
                    !.after = IF cy.kind = "range" THEN numMessages ELSE @,
                    !.err = SettleErr(cy.promise, @, "decode")]
    ELSE IF pub.threw
    THEN [cy EXCEPT !.joined = TRUE,
                    !.out = @ \o [k \in 1..Len(pub.dels) |-> pub.dels[k].uid],
                    !.dels = @ \o pub.dels,
                    !.after = IF cy.kind = "range" THEN numMessages ELSE @,
                    !.promise = Settle(@, "rejected"),
                    !.err = SettleErr(cy.promise, @, "subscriber")]
    ELSE [cy EXCEPT !.joined = TRUE,
                    !.out = @ \o [k \in 1..Len(pub.dels) |-> pub.dels[k].uid],
                    !.dels = @ \o pub.dels,
                    !.after = IF cy.kind = "range"
                              THEN numMessages + cy.numNew ELSE @,
                    !.promise = Settle(@, "resolved")]

\* uidset fetchMessages, after Promise.all: resolve, and getUnseenMails
\* resolves after it.
UidsetJoin(cy) ==
    [cy EXCEPT !.joined = TRUE, !.promise = Settle(@, "resolved")]

Join(cy) ==
    IF ~JoinReady(cy) THEN cy
    ELSE IF variant = "baseline" THEN BaselineJoin(cy) ELSE UidsetJoin(cy)

\* baseline fetchNewMessages: this.numMessages += numNew after publishing.
Advance(cy) ==
    IF /\ variant = "baseline" /\ JoinReady(cy) /\ cy.kind = "range"
       /\ ~AnyFail(cy)
       /\ ~BaselinePublication(cy).threw
    THEN numMessages + cy.numNew ELSE numMessages

\* mailListeners and the subscribers after the "end" handler has got past
\* Promise.all, and after a message's decode continuation.
JoinLists(cy) ==
    IF variant = "baseline" /\ JoinReady(cy) /\ ~AnyFail(cy)
    THEN BaselinePublication(cy)
    ELSE [ml |-> mailListeners, reg |-> registered]

\* The continuation of a message's "end" handler once simpleParser settled.
\* uidset: seenUIDs.add, emit("mail"), resolveMessage; baseline: resolve(mail)
\* or reject(error).
\* The try block gets as far as building the mail and then logs "Parsed mail
\* message": a throw of simpleParser or of the log sink lands in the catch.
Parsed(sink, ok) == ok /\ ~DebugThrows(sink, "Parsed mail message")

DecodeContWith(sink, cy, i, ok) ==
    IF Parsed(sink, ok)
    THEN [cy EXCEPT !.msgs[i].st = "ok",
                    !.msgs[i].parsed = ok,
                    !.out = IF variant = "uidset"
                            THEN Append(@, cy.msgs[i].uid) ELSE @,
                    !.dels = IF variant = "uidset"
                             THEN Append(@, Delivery(cy.msgs[i].uid)) ELSE @]
    ELSE [cy EXCEPT !.msgs[i].st = "fail", !.msgs[i].parsed = ok]

DecodeCont(cy, i, ok) == DecodeContWith(debug, cy, i, ok)

SeenAfter(cy, i, ok) ==
    IF variant = "uidset" /\ Parsed(debug, ok)
    THEN seenUIDs \cup {cy.msgs[i].uid} ELSE seenUIDs

DecodeLists(cy, i, ok) ==
    IF variant = "uidset"
    THEN IF Parsed(debug, ok) THEN PublishOne(mailListeners, registered)
         ELSE [ml |-> mailListeners, reg |-> registered]
    ELSE JoinLists(DecodeCont(cy, i, ok))

\* ------------------------------------------------------------- client API
\* The user calls getUnseenMails().
GetUnseenMails ==
    /\ UserRef
    /\ CallsLeft
    /\ LET cy == GetUnseenMailsCall("user") IN
         /\ cycles' = Append(cycles, cy)
         /\ queue' = IF cy.searches = 1
                     THEN Append(queue, Req("search", "cycle", "", Len(cycles) + 1))
                     ELSE queue
    /\ UNCHANGED <<variant, direct, client, currentBox, numMessages, seenUIDs,
                   errListener, pushListener, createP, createErr, connLog,
                   engine, selected, mailbox, switches, closed>>
    /\ UNCHANGED <<closes, subVars>>

\* The bookkeeping of one switchMailbox call.
BlankSwitch(name) ==
    [name |-> name,
     afterClose |-> closed,     \* invoked after close() returned
     promise |-> "pending",     \* the call's promise
     selects |-> 1,             \* client.openBox invocations
     resp |-> NoBox,            \* the Box of the server's response
     box |-> NoBox,             \* this.currentBox when the callback returned
     base |-> 0]                \* this.numMessages when the callback returned

\* The user calls switchMailbox(name).  With this.client undefined the
\* promise executor throws and the promise is rejected.
SwitchMailbox(name) ==
    /\ UserRef
    /\ CallsLeft
    /\ IF client = "none"
       THEN /\ switches' = Append(switches, [BlankSwitch(name) EXCEPT
                                  !.promise = "rejected", !.selects = 0])
            /\ UNCHANGED queue
       ELSE /\ switches' = Append(switches, BlankSwitch(name))
            /\ queue' = Append(queue, Req("openBox", "switch", name,
                                          Len(switches) + 1))
    /\ UNCHANGED <<variant, direct, client, currentBox, numMessages, seenUIDs,
                   errListener, pushListener, createP, createErr, connLog,
                   engine, selected, mailbox, cycles, closed>>
    /\ UNCHANGED <<closes, subVars>>

\* The getUnseenMails calls of the user whose promise is pending.
PendingCalls ==
    {c \in 1..Len(cycles) :
        cycles[c].trigger = "user" /\ cycles[c].promise = "pending"}

\* The user calls close(): this.client.end() queues the LOGOUT; resolve().
\* cut records the calls that were outstanding: close() does nothing to them.
\* With this.client undefined the promise executor throws and the promise is
\* rejected.
Close ==
    /\ UserRef
    /\ CallsLeft
    /\ closed' = TRUE
    /\ IF client = "none"
       THEN /\ closes' = Append(closes, [promise |-> "rejected", ended |-> FALSE,
                                         cut |-> PendingCalls])
            /\ UNCHANGED queue
       ELSE /\ closes' = Append(closes, [promise |-> "resolved", ended |-> TRUE,
                                         cut |-> PendingCalls])
            /\ queue' = Append(queue, Req("logout", "close", "", Len(closes) + 1))
    /\ UNCHANGED <<variant, direct, client, currentBox, numMessages, seenUIDs,
                   errListener, pushListener, createP, createErr, connLog,
                   engine, selected, mailbox, cycles, switches>>
    /\ UNCHANGED subVars

\* The user calls on("mail", h).  baseline: super.on and mailListeners.push;
\* uidset: the inherited EventEmitter.on.
On(h) ==
    /\ UserRef
    /\ Len(listeners) < MaxSubs
    /\ Len(mailListeners) < MaxSubs
    /\ h \notin Range(registered)
    /\ registered' = Append(registered, h)
    /\ listeners' = Append(listeners, h)
    /\ mailListeners' = IF variant = "baseline"
                        THEN Append(mailListeners, h) ELSE mailListeners
    /\ UNCHANGED <<variant, direct, client, currentBox, numMessages, seenUIDs,
                   errListener, pushListener, createP, createErr, connLog,
                   engine, selected, queue, mailbox, cycles, switches, closed,
                   closes, debug>>

\* The user calls off("mail", h): the inherited EventEmitter.off, which
\* removes the most recently added instance of h from the emitter's list.
Off(h) ==
    /\ UserRef
    /\ h \in Range(registered)
    /\ registered' = WithoutLast(registered, h)
    /\ listeners' = WithoutLast(listeners, h)
    /\ UNCHANGED <<variant, direct, client, currentBox, numMessages, seenUIDs,
                   errListener, pushListener, createP, createErr, connLog,
                   engine, selected, queue, mailbox, cycles, switches, closed,
                   closes, debug, mailListeners>>

\* The user calls the baseline's removeMailListener(h).
RemoveMailListener(h) ==
    /\ UserRef
    /\ variant = "baseline"
    /\ h \in Range(registered)
    /\ registered' = WithoutFirst(registered, h)
    /\ mailListeners' = WithoutFirst(mailListeners, h)
    /\ UNCHANGED <<variant, direct, client, currentBox, numMessages, seenUIDs,
                   errListener, pushListener, createP, createErr, connLog,
                   engine, selected, queue, mailbox, cycles, switches, closed,
                   closes, debug, listeners>>

\* ------------------------------------------------------------- engine
NextUid(box) == IF Len(box) = 0 THEN 1 ELSE box[Len(box)] + 1

\* The "mail" listener of setupListeners.
MailHandler(n) ==
    IF variant = "baseline"
    THEN LET cy == FetchNewMessagesCall(n) IN
         /\ cycles' = Append(cycles, cy)
         /\ queue' = IF cy.fetches = 1
                     THEN Append(queue, Req("fetch", "cycle", "", Len(cycles) + 1))
                     ELSE queue
         /\ UNCHANGED currentBox
    ELSE LET cy == GetUnseenMailsCall("push") IN
         /\ currentBox' = IF currentBox # NoBox
                          THEN [currentBox EXCEPT !.total = @ + n]
                          ELSE currentBox
         /\ cycles' = Append(cycles, cy)
         /\ queue' = IF cy.searches = 1
                     THEN Append(queue, Req("search", "cycle", "", Len(cycles) + 1))
                     ELSE queue

\* n new messages arrive in the selected INBOX and the engine emits "mail".
EngineMail(n) ==
    /\ engine = "auth"
    /\ selected = "INBOX"
    /\ Len(mailbox) + n <= MaxMsgs
    /\ mailbox' = mailbox \o [i \in 1..n |-> NextUid(mailbox) + i - 1]
    /\ IF pushListener
       THEN CallsLeft /\ MailHandler(n)
       ELSE UNCHANGED <<currentBox, cycles, queue>>
    /\ UNCHANGED <<variant, direct, client, numMessages, seenUIDs, errListener,
                   pushListener, createP, createErr, connLog, engine, selected,
                   switches, closed>>
    /\ UNCHANGED <<closes, subVars>>

\* The engine's current command is a search / a fetch / the logout.
Serving(op) == engine = "auth" /\ queue # <<>> /\ Head(queue).op = op

\* The engine calls the search callback.
EngineSearchCb(ok) ==
    /\ Serving("search")
    /\ LET c == Head(queue).id
           cy == IF ok THEN SearchCb(cycles[c], SearchResult(ServerBox(selected)))
                 ELSE SearchErrCb(cycles[c])
       IN /\ cycles' = [cycles EXCEPT ![c] = cy]
          /\ queue' = IF cy.pc = "fetch"
                      THEN Append(Tail(queue), Req("fetch", "cycle", "", c))
                      ELSE Tail(queue)
    /\ UNCHANGED <<variant, direct, client, currentBox, numMessages, seenUIDs,
                   errListener, pushListener, createP, createErr, connLog,
                   engine, selected, mailbox, switches, closed>>
    /\ UNCHANGED <<closes, subVars>>

\* The fetch emits "message", and the message its "attributes" and "end":
\* the message's decode starts.
EngineMessage ==
    /\ Serving("fetch")
    /\ LET c == Head(queue).id
           cy == cycles[c]
           res == FetchResult(cy.by, cy.req, ServerBox(selected))
       IN /\ ~cy.fetchErr
          /\ Len(cy.msgs) < Len(res)
          /\ cycles' = [cycles EXCEPT ![c].msgs =
                          Append(@, [uid |-> res[Len(cy.msgs) + 1],
                                     st |-> "decoding",
                                     parsed |-> FALSE])]
    /\ UNCHANGED <<variant, direct, client, currentBox, numMessages, seenUIDs,
                   errListener, pushListener, createP, createErr, connLog,
                   engine, selected, queue, mailbox, switches, closed>>
    /\ UNCHANGED <<closes, subVars>>

\* The fetch's "error" handler: reject(err).
FetchErrorHandler(cy) ==
    [cy EXCEPT !.fetchErr = TRUE, !.promise = Settle(@, "rejected"),
               !.err = SettleErr(cy.promise, @, "fetch")]

\* The fetch emits "error" (the command failed); its "end" follows.
EngineFetchError ==
    /\ Serving("fetch")
    /\ LET c == Head(queue).id IN
         /\ ~cycles[c].fetchErr
         /\ cycles' = [cycles EXCEPT ![c] = FetchErrorHandler(@)]
    /\ UNCHANGED <<variant, direct, client, currentBox, numMessages, seenUIDs,
                   errListener, pushListener, createP, createErr, connLog,
                   engine, selected, queue, mailbox, switches, closed>>
    /\ UNCHANGED <<closes, subVars>>

\* The fetch's "end" handler up to its await, and past it when every message
\* promise has settled already.
FetchEndHandler(cy) == Join([cy EXCEPT !.fetchEnd = TRUE, !.pc = "done"])

\* The fetch emits "end": every message was reported, or the command failed.
EngineFetchEnd ==
    /\ Serving("fetch")
    /\ LET c == Head(queue).id
           cy == cycles[c]
           res == FetchResult(cy.by, cy.req, ServerBox(selected))
       IN /\ cy.fetchErr \/ Len(cy.msgs) = Len(res)
          /\ cycles' = [cycles EXCEPT ![c] = FetchEndHandler(cy)]
          /\ numMessages' = Advance([cy EXCEPT !.fetchEnd = TRUE])
          /\ mailListeners' = JoinLists([cy EXCEPT !.fetchEnd = TRUE]).ml
          /\ registered' = JoinLists([cy EXCEPT !.fetchEnd = TRUE]).reg
    /\ queue' = Tail(queue)
    /\ UNCHANGED <<variant, direct, client, currentBox, seenUIDs,
                   errListener, pushListener, createP, createErr, connLog,
                   engine, selected, mailbox, switches, closed>>
    /\ UNCHANGED <<closes, debug, listeners>>

\* simpleParser settles for message i of cycle c.
DecodeDone(c, i, ok) ==
    /\ c \in 1..Len(cycles)
    /\ i \in 1..Len(cycles[c].msgs)
    /\ cycles[c].msgs[i].st = "decoding"
    /\ LET cy == DecodeCont(cycles[c], i, ok) IN
         /\ cycles' = [cycles EXCEPT ![c] = Join(cy)]
         /\ numMessages' = Advance(cy)
         /\ seenUIDs' = SeenAfter(cycles[c], i, ok)
         /\ mailListeners' = DecodeLists(cycles[c], i, ok).ml
         /\ registered' = DecodeLists(cycles[c], i, ok).reg
    /\ UNCHANGED <<variant, direct, client, currentBox,
                   errListener, pushListener, createP, createErr, connLog,
                   engine, selected, queue, mailbox, switches, closed>>
    /\ UNCHANGED <<closes, debug, listeners>>

\* The engine serves the LOGOUT and the connection ends.
EngineLogout ==
    /\ Serving("logout")
    /\ engine' = "ended"
    /\ queue' = Tail(queue)
    /\ UNCHANGED <<variant, direct, client, currentBox, numMessages, seenUIDs,
                   errListener, pushListener, createP, createErr, connLog,
                   selected, mailbox, cycles, switches, closed>>
    /\ UNCHANGED <<closes, subVars>>

Next ==
    \/ Connect
    \/ ConnectThrows
    \/ EngineReady
    \/ EngineError
    \/ EngineOpenBoxCb
    \/ GetUnseenMails
    \/ \E name \in MailboxNames : SwitchMailbox(name)
    \/ Close
    \/ \E n \in 1..MaxMsgs : EngineMail(n)
    \/ \E ok \in BOOLEAN : EngineSearchCb(ok)
    \/ EngineMessage
    \/ EngineFetchError
    \/ EngineFetchEnd
    \/ \E c \in 1..MaxCalls, i \in 1..MaxMsgs, ok \in BOOLEAN : DecodeDone(c, i, ok)
    \/ EngineLogout

\* Nothing the caller started is still running: every call has settled, no
\* fetch is in progress and no message is still being decoded.
Idle ==
    /\ \A c \in 1..Len(cycles) :
         /\ cycles[c].promise # "pending"
         /\ cycles[c].pc = "done"
         /\ AllSettled(cycles[c])
    /\ \A w \in 1..Len(switches) : switches[w].promise # "pending"

SeqGetUnseenMails == Idle /\ GetUnseenMails

SeqSwitchMailbox(name) == Idle /\ SwitchMailbox(name)

SeqClose == Idle /\ Close

SeqEngineMail(n) == Idle /\ EngineMail(n)

\* The behaviours of a caller who awaits each call before making the next,
\* with a server that pushes only between the calls.
NextSeq ==
    \/ Connect
    \/ ConnectThrows
    \/ EngineReady
    \/ EngineError
    \/ EngineOpenBoxCb
    \/ SeqGetUnseenMails
    \/ \E name \in MailboxNames : SeqSwitchMailbox(name)
    \/ SeqClose
    \/ \E n \in 1..MaxMsgs : SeqEngineMail(n)
    \/ \E ok \in BOOLEAN : EngineSearchCb(ok)
    \/ EngineMessage
    \/ EngineFetchError
    \/ EngineFetchEnd
    \/ \E c \in 1..MaxCalls, i \in 1..MaxMsgs, ok \in BOOLEAN : DecodeDone(c, i, ok)
    \/ EngineLogout

SeqOn(h) == Idle /\ On(h)

SeqOff(h) == Idle /\ Off(h)

SeqRemoveMailListener(h) == Idle /\ RemoveMailListener(h)

\* The behaviours of a caller who subscribes and unsubscribes handlers
\* between the cycles, on a connection that stays up.
NextSub ==
    \/ Connect
    \/ EngineReady
    \/ EngineOpenBoxCb
    \/ \E h \in Handlers : SeqOn(h)
    \/ \E h \in Handlers : SeqOff(h)
    \/ \E h \in Handlers : SeqRemoveMailListener(h)
    \/ SeqGetUnseenMails
    \/ \E n \in 1..MaxMsgs : SeqEngineMail(n)
    \/ \E ok \in BOOLEAN : EngineSearchCb(ok)
    \/ EngineMessage
    \/ EngineFetchEnd
    \/ \E c \in 1..MaxCalls, i \in 1..MaxMsgs, ok \in BOOLEAN : DecodeDone(c, i, ok)

\* The default configuration: debug disabled.
InitQuiet == Init /\ debug = "off"

SpecSeq == InitQuiet /\ [][NextSeq]_vars

\* Every debug configuration, with a caller who awaits each call.
SpecDebug == Init /\ [][NextSeq]_vars

SpecSub == InitQuiet /\ [][NextSub]_vars

\* The handlers of a baseline owner one of whose handlers unsubscribes
\* itself from within its callback.
MutHandlers == {"h1", "leaver"}

\* The behaviours of that owner: handlers are subscribed and unsubscribed
\* between the cycles, and "leaver" also while a mail is being delivered.
NextMut ==
    \/ Connect
    \/ EngineReady
    \/ EngineOpenBoxCb
    \/ \E h \in MutHandlers : SeqOn(h)
    \/ \E h \in MutHandlers : SeqOff(h)
    \/ \E h \in MutHandlers : SeqRemoveMailListener(h)
    \/ SeqGetUnseenMails
    \/ \E n \in 1..MaxMsgs : SeqEngineMail(n)
    \/ \E ok \in BOOLEAN : EngineSearchCb(ok)
    \/ EngineMessage
    \/ EngineFetchEnd
    \/ \E c \in 1..MaxCalls, i \in 1..MaxMsgs, ok \in BOOLEAN : DecodeDone(c, i, ok)

InitMut == InitQuiet /\ variant = "baseline"

SpecMut == InitMut /\ [][NextMut]_vars

\* The engine answers what it was asked: the mailbox selection and the search
\* call back, a fetch reports its messages and signals its end, every decode
\* settles, and a LOGOUT ends the connection.
EngineFair ==
    /\ WF_vars(EngineOpenBoxCb)
    /\ WF_vars(\E ok \in BOOLEAN : EngineSearchCb(ok))
    /\ WF_vars(EngineMessage)
    /\ WF_vars(EngineFetchEnd)
    /\ WF_vars(\E c \in 1..MaxCalls, i \in 1..MaxMsgs, ok \in BOOLEAN :
                  DecodeDone(c, i, ok))
    /\ WF_vars(EngineLogout)

\* A caller who awaits each call, on an engine that answers.
SpecLive == InitQuiet /\ [][NextSeq]_vars /\ EngineFair

Spec == InitQuiet /\ [][Next]_vars

\* ------------------------------------------------------------- claims
Cycles == 1..Len(cycles)

\* The identifiers cycle c's fetch reported, in "message" order.
Reported(c) == [i \in 1..Len(cycles[c].msgs) |-> cycles[c].msgs[i].uid]

\* C1: uidset: a call never publishes an identifier that had been published
\* before the call was made, also when its search returns that identifier
\* again.
C1_NoRepublish ==
    variant = "uidset" =>
        \A c \in Cycles : Range(cycles[c].out) \cap cycles[c].pubAtStart = {}

\* A later call's search returned a published identifier together with a new
\* one, and the call published and resolved.
C1_Witness ==
    /\ variant = "uidset"
    /\ \E c \in Cycles :
         /\ Range(cycles[c].found) \cap cycles[c].pubAtStart # {}
         /\ cycles[c].out # <<>>
         /\ cycles[c].promise = "resolved"

\* C2: baseline: a getUnseenMails call never publishes an identifier that an
\* earlier getUnseenMails call had published before the later call was made.
C2_BaselineNoRepublish ==
    variant = "baseline" =>
        \A c, d \in Cycles :
            (c < d /\ cycles[c].kind = "scan" /\ cycles[d].kind = "scan")
            => Range(cycles[d].out) \cap Range(cycles[c].out)
                 \cap cycles[d].pubAtStart = {}

\* C3: a getUnseenMails cycle whose fetch ended without error and whose
\* messages have distinct identifiers and all decoded has published exactly
\* those messages, in the order the fetch reported them.
C3_PublishInMessageOrder ==
    \A c \in Cycles :
        ( /\ cycles[c].kind = "scan"
          /\ cycles[c].fetchEnd
          /\ ~cycles[c].fetchErr
          /\ AllOk(cycles[c])
          /\ Cardinality(Range(Reported(c))) = Len(cycles[c].msgs) )
        => cycles[c].out = Reported(c)

\* C4: uidset: a push-triggered scan and an on-demand getUnseenMails call never
\* publish the same identifier.
C4_NoDuplicateAcrossTriggers ==
    variant = "uidset" =>
        \A c, d \in Cycles :
            (cycles[c].trigger = "push" /\ cycles[d].trigger = "user")
            => Range(cycles[c].out) \cap Range(cycles[d].out) = {}

\* C5: a getUnseenMails cycle whose search or fetch reported an error is
\* rejected and has published nothing.
C5_ErrorPublishesNothing ==
    \A c \in Cycles :
        (cycles[c].kind = "scan" /\ (cycles[c].err = "search" \/ cycles[c].fetchErr))
        => (cycles[c].promise = "rejected" /\ cycles[c].out = <<>>)

\* C6: a getUnseenMails call whose search returned nothing, or only
\* identifiers that had already been delivered, has resolved without a fetch.
C6_NothingNewNoFetch ==
    \A c \in Cycles :
        ( /\ cycles[c].kind = "scan"
          /\ cycles[c].searches = 1
          /\ cycles[c].pc # "search"
          /\ cycles[c].err # "search"
          /\ Range(cycles[c].found) \subseteq cycles[c].pubAtSearch )
        => (cycles[c].fetches = 0 /\ cycles[c].promise = "resolved")

\* C7: create has resolved only after the ready event and then the successful
\* selection response, and when it resolves currentBox is that response.
C7_CreateAfterReadyAndSelect ==
    /\ [](createP = "resolved" =>
            /\ Len(connLog) = 2
            /\ connLog[1].ev = "ready"
            /\ connLog[2].ev = "boxOk")
    /\ [][(createP # "resolved" /\ createP' = "resolved")
            => currentBox' = connLog'[Len(connLog')].box]_vars

\* create resolved on a mailbox that holds messages.
C7_Witness == createP = "resolved" /\ currentBox.total > 0

\* C8: once the engine has emitted a connection error while create was
\* pending, create is rejected with that error.
C8_ErrorRejectsCreate ==
    LogHas("error") => (createP = "rejected" /\ createErr = "connection")

\* C9: once the selection of connect has failed, create is rejected with the
\* selection error, no push listener is registered and currentBox is unset.
C9_SelectFailureRejects ==
    LogHas("boxErr") =>
        /\ createP = "rejected"
        /\ createErr = "mailbox"
        /\ ~pushListener
        /\ currentBox = NoBox

\* The connection became ready and the selection then failed.
C9_Witness == LogHas("ready") /\ LogHas("boxErr")

\* C10: a getUnseenMails or switchMailbox call made after close() returned is
\* rejected as not connected and hands nothing to the engine.
C10_AfterCloseNotConnected ==
    /\ \A c \in Cycles :
         (cycles[c].afterClose /\ cycles[c].trigger = "user")
         => ( /\ cycles[c].promise = "rejected"
              /\ cycles[c].err = "NotConnected"
              /\ cycles[c].searches = 0 )
    /\ \A w \in 1..Len(switches) :
         switches[w].afterClose
         => (switches[w].promise = "rejected" /\ switches[w].selects = 0)

\* C11: on a client obtained from create, every close() call has resolved,
\* and only the first one asked the engine to end the session.
C11_CloseIdempotent ==
    createP = "resolved" =>
        \A k \in 1..Len(closes) :
            /\ closes[k].promise = "resolved"
            /\ k > 1 => ~closes[k].ended

\* The identifiers of the messages of cycle c that decoded.
Decoded(c) == {cycles[c].msgs[i].uid :
                 i \in {j \in 1..Len(cycles[c].msgs) : cycles[c].msgs[j].st = "ok"}}

\* C12: no cycle is rejected because a message failed to decode, and once the
\* fetch has ended without error and every decode has settled, every message
\* that decoded has been published.
C12_DecodeFailureSkipped ==
    \A c \in Cycles :
        /\ cycles[c].err # "decode"
        /\ ( /\ cycles[c].fetchEnd
             /\ ~cycles[c].fetchErr
             /\ AllSettled(cycles[c])
             /\ AnyFail(cycles[c]) )
           => Decoded(c) \subseteq Range(cycles[c].out)

\* How many times handler h was invoked in the publication d.
Times(d, h) == Cardinality({i \in 1..Len(d.to) : d.to[i] = h})

\* C13: every publication reached every handler subscribed at that moment,
\* also when one of them throws; no cycle was rejected because a handler
\* threw; and a cycle whose messages all decoded published every one of them.
C13_SubscriberFailureIsolated ==
    \A c \in Cycles :
        /\ cycles[c].err # "subscriber"
        /\ \A k \in 1..Len(cycles[c].dels) :
              Range(cycles[c].dels[k].subs) \subseteq Range(cycles[c].dels[k].to)
        /\ (cycles[c].joined /\ ~cycles[c].fetchErr /\ AllOk(cycles[c]))
           => Len(cycles[c].out) = Len(cycles[c].msgs)

\* C14: baseline: in a publication where no handler throws, every subscribed
\* handler was invoked exactly once.
C14_InvokedOnce ==
    variant = "baseline" =>
        \A c \in Cycles : \A k \in 1..Len(cycles[c].dels) :
            LET d == cycles[c].dels[k] IN
            ~AnyThrows(d.to) =>
                \A h \in Range(d.subs) : Times(d, h) = 1

\* C15: baseline: a publication in which no handler throws invokes only
\* handlers that are subscribed at that moment: none that was unsubscribed
\* before it.
C15_UnsubscribedNotInvoked ==
    variant = "baseline" =>
        \A c \in Cycles : \A k \in 1..Len(cycles[c].dels) :
            LET d == cycles[c].dels[k] IN
            ~AnyThrows(d.to) => Range(d.to) \subseteq Range(d.subs)

\* C16: a getUnseenMails call made while the session was not Ready, or had no
\* mailbox selected, was rejected as not connected / no mailbox without a
\* search being issued.
C16_NotReadyFailsFast ==
    \A c \in Cycles :
        (cycles[c].trigger = "user" /\ cycles[c].kind = "scan" /\ ~cycles[c].ready)
        => /\ cycles[c].promise = "rejected"
           /\ cycles[c].err \in {"NotConnected", "NoMailbox"}
           /\ cycles[c].searches = 0

\* C17: baseline: when a switchMailbox call has resolved, it left currentBox
\* equal to the server's response and numMessages equal to that mailbox's
\* message count.
C17_SwitchReplacesSnapshot ==
    variant = "baseline" =>
        \A w \in 1..Len(switches) :
            switches[w].promise = "resolved"
            => /\ switches[w].box = switches[w].resp
               /\ switches[w].base = switches[w].resp.total

\* C18: whatever the debug configuration, a message handler built the mail
\* exactly when simpleParser succeeded, as it does with debug disabled.
C18_DebugNoEffect ==
    \A c \in Cycles : \A i \in 1..Len(cycles[c].msgs) :
        cycles[c].msgs[i].st \in {"ok", "fail"}
        => (cycles[c].msgs[i].st = "ok") = cycles[c].msgs[i].parsed

\* The cycles with a search or a fetch issued to the engine and not completed.
Outstanding ==
    {queue[i].id : i \in {j \in 1..Len(queue) : queue[j].op \in {"search", "fetch"}}}

\* C19: a push-triggered cycle never has its search or fetch outstanding on
\* the connection together with another cycle's.
C19_SingleCycleInFlight ==
    ~\E c, d \in Outstanding : c # d /\ cycles[c].trigger = "push"

\* C20: baseline: a push of N messages at baseline b issued one fetch for the
\* sequence numbers b+1..b+N; as long as no fetch has failed, numMessages is b
\* while that cycle is pending, and was b+N when the cycle resolved.
C20_PushRangeAndAdvance ==
    variant = "baseline" =>
        \A c \in Cycles :
            (cycles[c].kind = "range" /\ cycles[c].fetches = 1)
            => /\ cycles[c].req = (cycles[c].base + 1)..(cycles[c].base + cycles[c].numNew)
               /\ (cycles[c].promise = "pending" /\ \A d \in Cycles : ~cycles[d].fetchErr)
                  => numMessages = cycles[c].base
               /\ cycles[c].promise = "resolved"
                  => cycles[c].after = cycles[c].base + cycles[c].numNew


\* C21: in the baseline variant a push-triggered cycle that failed (the fetch
\* signalled an error, or a message failed to decode) leaves numMessages at
\* the value it had when the cycle started, also once the end handler of
\* that fetch has run.
C21_FailedPushKeepsBaseline ==
    variant = "baseline" =>
        \A c \in Cycles :
            (/\ cycles[c].kind = "range"
             /\ cycles[c].joined
             /\ (cycles[c].fetchErr \/ AnyFail(cycles[c])))
                => cycles[c].after = cycles[c].base

\* The push-triggered range cycles that issued their fetch.
PushFetches == {c \in Cycles : cycles[c].kind = "range" /\ cycles[c].fetches = 1}

\* C22: baseline: when every push-triggered fetch has succeeded, the sequence
\* ranges the pushes asked for are pairwise disjoint and together are exactly
\* the numbers from b0+1 on, b0 being the baseline at the first push: no
\* sequence number is fetched twice and none is skipped, also when a push
\* arrives while an earlier push's fetch is in flight.
C22_PushRangesPartition ==
    (/\ variant = "baseline"
     /\ PushFetches # {}
     /\ \A c \in PushFetches : cycles[c].promise = "resolved")
    => LET first == CHOOSE c \in PushFetches : \A d \in PushFetches : c <= d
           asked == UNION {cycles[c].req : c \in PushFetches}
       IN /\ \A c, d \in PushFetches :
                 c # d => cycles[c].req \cap cycles[d].req = {}
          /\ asked = (cycles[first].base + 1)..(cycles[first].base + Cardinality(asked))

\* C23: the fetch of a getUnseenMails cycle addresses the messages whose
\* identifiers the search returned (uidset: those not yet in seenUIDs), in
\* the identifier space of the search: once the fetch has ended without
\* error the messages it reported are exactly the identifiers asked for, and
\* every identifier published by the cycle is one the search returned.
C23_FetchAddressesSearchResult ==
    \A c \in Cycles :
        (cycles[c].kind = "scan" /\ cycles[c].fetches = 1)
        => /\ cycles[c].req \subseteq Range(cycles[c].found)
           /\ Range(cycles[c].out) \subseteq Range(cycles[c].found)
           /\ (cycles[c].fetchEnd /\ ~cycles[c].fetchErr)
              => Range(Reported(c)) = cycles[c].req

\* C24: a push never makes the client issue a search or a fetch unless the
\* session is Ready (connected, a mailbox selected, not closed): a "mail"
\* push that arrives after close() or after a connection error issues none.
C24_PushNeedsReady ==
    \A c \in Cycles :
        (cycles[c].trigger = "push" /\ ~cycles[c].ready)
        => (cycles[c].searches = 0 /\ cycles[c].fetches = 0)

\* C25: uidset: every identifier in seenUIDs belongs to a record whose
\* publication to the subscribers has completed successfully: some
\* publication of that identifier invoked the handlers without one throwing.
C25_SeenOnlyAfterPublished ==
    variant = "uidset" =>
        \A u \in seenUIDs :
            \E c \in Cycles : \E k \in 1..Len(cycles[c].dels) :
                /\ cycles[c].dels[k].uid = u
                /\ ~AnyThrows(cycles[c].dels[k].to)

\* Where the rejection of a cycle ends up.  A user call's promise is the
\* caller's.  baseline: the "mail" listener calls fetchNewMessages(numNew)
\* and drops the promise ("unhandled"); uidset: fetchNewMails awaits
\* getUnseenMails in a try block whose catch only logs ("logged").  Neither
\* client emits an "error" event ("event") anywhere.
Disposition(cy) ==
    IF cy.promise # "rejected" THEN "none"
    ELSE IF cy.trigger = "user" THEN "caller"
    ELSE IF variant = "baseline" THEN "unhandled"
    ELSE "logged"

\* C26: a push-started cycle that failed with a search or fetch error was
\* surfaced to the owner as an error event: it was neither swallowed nor
\* left as a rejected promise that nobody observes.
C26_PushFailureSurfaced ==
    \A c \in Cycles :
        (/\ cycles[c].trigger = "push"
         /\ cycles[c].promise = "rejected"
         /\ cycles[c].err \in {"search", "fetch"})
        => Disposition(cycles[c]) = "event"

\* C27: a getUnseenMails call that was outstanding when close() was called
\* settles by being rejected with a connection error: it is never resolved
\* or rejected with something else, and it is not still pending once the
\* connection has ended and the engine can deliver nothing more.
C27_CloseRejectsOutstanding ==
    \A k \in 1..Len(closes) : \A c \in closes[k].cut :
        /\ cycles[c].promise # "pending"
           => (cycles[c].promise = "rejected" /\ cycles[c].err = "connection")
        /\ engine = "ended" => cycles[c].promise # "pending"

\* How many times handler h occurs in the sequence list.
Count(list, h) == Cardinality({i \in 1..Len(list) : list[i] = h})

\* C28: baseline: a handler that unsubscribes from within its callback does
\* not disturb the delivery in progress: in a publication where no handler
\* throws, every other handler that was subscribed when the publication
\* began is invoked as often as it would have been had the lists not changed
\* during the publication; none is skipped.
C28_StableDelivery ==
    variant = "baseline" =>
        \A c \in Cycles : \A k \in 1..Len(cycles[c].dels) :
            LET d == cycles[c].dels[k] IN
            ~AnyThrows(d.to) =>
                \A h \in Range(d.subs) :
                    ~HandlerLeaves(h) => Times(d, h) = Count(d.plan, h)

\* C29: a getUnseenMails call is resolved only when every message its fetch
\* reported has finished its decode and has been published (decoded) or
\* skipped (decode failed), and a cycle publishes nothing after the call that
\* started it has resolved.
C29_ResolveAfterLastPublish ==
    /\ [](\A c \in Cycles :
            (cycles[c].kind = "scan" /\ cycles[c].promise = "resolved")
            => /\ AllSettled(cycles[c])
               /\ Decoded(c) \subseteq Range(cycles[c].out))
    /\ [][\A c \in Cycles :
            (cycles[c].kind = "scan" /\ cycles[c].promise = "resolved")
            => cycles'[c].out = cycles[c].out]_vars

\* A call that resolved after its fetch reported MaxMsgs messages and at
\* least one of them was published.
C29_Witness ==
    \E c \in Cycles :
        /\ cycles[c].kind = "scan"
        /\ cycles[c].promise = "resolved"
        /\ Len(cycles[c].msgs) = MaxMsgs
        /\ Len(cycles[c].out) > 0

\* C30: with an engine that answers (the search calls back, every reported
\* message's decode settles, every fetch signals its end or an error) every
\* getUnseenMails call settles, as long as the connection is up: time and
\* again no call is pending (the calls are finitely many and a settled call
\* stays settled, so this says each of them settles).  And it settles once:
\* a promise that was resolved or rejected stays as it is.
C30_CallsSettleOnce ==
    /\ []<>(\A c \in Cycles :
              cycles[c].kind = "scan"
              => (cycles[c].promise # "pending" \/ engine # "auth"))
    /\ [][\A c \in Cycles :
            cycles[c].promise # "pending"
            => /\ cycles'[c].promise = cycles[c].promise
               /\ cycles'[c].err = cycles[c].err]_vars

\* A call that was rejected by its fetch's error and whose fetch signalled
\* its end afterwards: the end handler's resolve() changed nothing.
C30_Witness ==
    \E c \in Cycles :
        /\ cycles[c].kind = "scan"
        /\ cycles[c].fetchErr
        /\ cycles[c].joined
        /\ cycles[c].promise = "rejected"
        /\ cycles[c].err = "fetch"
====
